---- MODULE Spec2Model ----
(***************************************************************************)
(* Reformer reversible layers (trax/models/reformer/reformer.py).         *)
(*                                                                         *)
(* A tensor is a record [shape, data]: shape is the sequence of its axis  *)
(* extents and data its elements in row-major (C) order, which is the     *)
(* order np.reshape, np.split and np.concatenate work in.  A call that    *)
(* raises is the record [error |-> <exception name>].                     *)
(***************************************************************************)
EXTENDS Integers, Sequences, FiniteSets, TLC

VARIABLES
  x,              \* Chunk/Unchunk: the input tensor
  n_sections,     \* Chunk/Unchunk/SplitForOutput: the n_sections argument
  chunked,        \* Chunk(x)
  unchunked,      \* Unchunk(Chunk(x))
  unchunked_raw,  \* Unchunk(x)
  split_out,      \* SplitForOutput.forward((x1, x2))
  split_rev,      \* SplitForOutput.reverse(split_out)
  x1, x2,         \* the two input streams of a reversible layer
  weights,        \* half-residual step: one entry per sub-layer
  state,          \* half-residual step: one entry per sub-layer
  new_state,      \* half-residual step: one entry per sub-layer
  rng,            \* half-residual step: the rng key of the call
  ct,             \* the cotangent of the layer's output
  y,              \* the step's forward output (y1, y2)
  reconstructed_x,\* the step's reverse(y)
  rg,             \* reverse_and_grad(y, ct) of the layer
  n_blocks,       \* chain: the number of decoder blocks (n_layers)
  pc,             \* chain: where the runner is; one step: its kind
  pos,            \* chain: the step boundary the runner's stack is at
  stack,          \* chain: the activations the runner holds
  stack_ct,       \* chain: the cotangent of stack
  weights_ct,     \* chain: the weight gradients of the steps walked so far
  live,           \* chain: the step boundaries whose activations are in memory
  calls,          \* chain: the reverse_and_grad calls made, in order
  fwd_trace,      \* chain: what the forward pass produced at each boundary
  layer,          \* a constructed layer, or the error its constructor raised
  call_inputs,    \* the inputs of a call on layer
  result          \* what the call returned or raised

chunkOnly == <<x, chunked, unchunked, unchunked_raw>>
splitOnly == <<split_out, split_rev>>
pairVars  == <<x1, x2>>
halfOnly  == <<weights, state, new_state, rng, ct, y, reconstructed_x, rg>>
chainOnly == <<n_blocks, pc, pos, stack, stack_ct, weights_ct, live, calls, fwd_trace>>
layerVars == <<layer, call_inputs, result>>
vars == <<n_sections, chunkOnly, splitOnly, pairVars, halfOnly, chainOnly, layerVars>>

\* ------------------------------------------------------------------ bounds
MaxBatch == 2
MaxLen == 4
MaxFeat == 2
MaxSections == 3
MaxVal == 1
MaxWeight == 2
MaxKey == 1
MaxBlocks == 2
SatLevel == 4

\* ------------------------------------------------------------- tensor ops
None == [none |-> TRUE]
Raise(name) == [error |-> name]
IsTensor(t) == DOMAIN t = {"shape", "data"}
IsError(t) == DOMAIN t = {"error"}

RECURSIVE Prod(_)
Prod(s) == IF s = <<>> THEN 1 ELSE Head(s) * Prod(Tail(s))

\* x.shape[2:]
ShapeFrom2(t) == SubSeq(t.shape, 3, Len(t.shape))

\* np.reshape(x, newshape): same elements in the same row-major order; the
\* element counts must agree.
Reshape(t, newshape) ==
  IF Prod(newshape) # Len(t.data)
    THEN Raise("ValueError")
    ELSE [shape |-> newshape, data |-> t.data]

\* The element of a rank-3 tensor at [i, j, k] (0-based).
At3(t, i, j, k) == t.data[(i * t.shape[2] + j) * t.shape[3] + k + 1]

\* A tensor of the given shape whose elements are base, base+1, ... in
\* row-major order: every element differs from every other.
Iota(shape, base) == [shape |-> shape, data |-> [i \in 1..Prod(shape) |-> base + i - 1]]

\* --------------------------------------------------------- Chunk / Unchunk
ChunkTruncating(t, n) ==
  LET shp == <<t.shape[1] * n, t.shape[2] \div n>> \o ShapeFrom2(t)
  IN  [shape |-> shp, data |-> SubSeq(t.data, 1, Prod(shp))]

Chunk(t, n) ==
  IF t.shape[2] % n # 0
    THEN Raise("AssertionError")
    ELSE Reshape(t, <<t.shape[1] * n, t.shape[2] \div n>> \o ShapeFrom2(t))

UnchunkWrongAxis(t, n) ==
  IF t.shape[1] % n # 0
    THEN Raise("AssertionError")
    ELSE Reshape(t, <<t.shape[1] * n, t.shape[2] \div n>> \o ShapeFrom2(t))

Unchunk(t, n) ==
  IF t.shape[1] % n # 0
    THEN Raise("AssertionError")
    ELSE Reshape(t, <<t.shape[1] \div n, t.shape[2] * n>> \o ShapeFrom2(t))

\* ---------------------------------------------------------- SplitForOutput
\* A negative axis counts from the end; the result is a 1-based position.
AxisOf(shape, axis) == IF axis < 0 THEN Len(shape) + axis + 1 ELSE axis + 1
Outer(shape, ax) == Prod(SubSeq(shape, 1, ax - 1))
Inner(shape, ax) == Prod(SubSeq(shape, ax + 1, Len(shape)))

\* np.split(t, n, axis) needs an equal division.
CanSplit(t, n, axis) == t.shape[AxisOf(t.shape, axis)] % n = 0

\* np.split(t, n, axis): the n equal sections of t along the axis, in order.
Split(t, n, axis) ==
  LET ax == AxisOf(t.shape, axis)
      A  == t.shape[ax]
      I  == Inner(t.shape, ax)
      O  == Outer(t.shape, ax)
      sz == A \div n
  IN  [i \in 1..n |->
        [shape |-> [t.shape EXCEPT ![ax] = sz],
         data  |-> [j \in 1..(O * sz * I) |->
                      LET o == (j - 1) \div (sz * I)
                          a == ((j - 1) \div I) % sz
                          k == (j - 1) % I
                      IN  t.data[(o * A + (i - 1) * sz + a) * I + k + 1]]]]

\* np.concatenate needs the same shape everywhere but along the axis.
CanConcatenate(ts, axis) ==
  \A p \in 1..Len(ts) :
    /\ Len(ts[p].shape) = Len(ts[1].shape)
    /\ \A d \in 1..Len(ts[1].shape) :
         d # AxisOf(ts[1].shape, axis) => ts[p].shape[d] = ts[1].shape[d]

RECURSIVE AxisOffset(_, _, _)
AxisOffset(ts, ax, p) ==
  IF p = 1 THEN 0 ELSE AxisOffset(ts, ax, p - 1) + ts[p - 1].shape[ax]

\* np.concatenate(ts, axis): the tensors one after another along the axis.
Concatenate(ts, axis) ==
  LET ax == AxisOf(ts[1].shape, axis)
      A  == AxisOffset(ts, ax, Len(ts) + 1)
      I  == Inner(ts[1].shape, ax)
      O  == Outer(ts[1].shape, ax)
  IN  [shape |-> [ts[1].shape EXCEPT ![ax] = A],
       data  |-> [j \in 1..(O * A * I) |->
                    LET o == (j - 1) \div (A * I)
                        a == ((j - 1) \div I) % A
                        k == (j - 1) % I
                        p == CHOOSE q \in 1..Len(ts) :
                               /\ AxisOffset(ts, ax, q) <= a
                               /\ a < AxisOffset(ts, ax, q + 1)
                    IN  ts[p].data[(o * ts[p].shape[ax] + a - AxisOffset(ts, ax, p)) * I
                                     + k + 1]]]

\* SplitForOutput is built with axis=-2 (ReformerLM).
SplitAxis == 0 - 2
Tuple(ts) == [tuple |-> ts]
IsTuple(t) == DOMAIN t = {"tuple"}

SplitForOutput_forward_seq_concat(in1, in2, n) ==
  IF ~CanSplit(in1, n, SplitAxis) \/ ~CanSplit(in2, n, SplitAxis)
    THEN Raise("ValueError")
    ELSE LET x1_split == Split(in1, n, SplitAxis)
             x2_split == Split(in2, n, SplitAxis)
         IN  Tuple([i \in 1..n |-> Concatenate(<<x1_split[i], x2_split[i]>>, SplitAxis)])

SplitForOutput_forward(in1, in2, n) ==
  IF ~CanSplit(in1, n, SplitAxis) \/ ~CanSplit(in2, n, SplitAxis)
    THEN Raise("ValueError")
    ELSE LET x1_split == Split(in1, n, SplitAxis)
             x2_split == Split(in2, n, SplitAxis)
         IN  IF \E i \in 1..n : ~CanConcatenate(<<x1_split[i], x2_split[i]>>, -1)
               THEN Raise("ValueError")
               ELSE Tuple([i \in 1..n |-> Concatenate(<<x1_split[i], x2_split[i]>>, -1)])

SplitForOutput_reverse_swapped(output) ==
  IF \E i \in 1..Len(output) : ~CanSplit(output[i], 2, -1)
    THEN Raise("ValueError")
    ELSE LET x1_split == [i \in 1..Len(output) |-> Split(output[i], 2, -1)[2]]
             x2_split == [i \in 1..Len(output) |-> Split(output[i], 2, -1)[1]]
         IN  Tuple(<<Concatenate(x1_split, SplitAxis), Concatenate(x2_split, SplitAxis)>>)

SplitForOutput_reverse(output) ==
  IF \E i \in 1..Len(output) : ~CanSplit(output[i], 2, -1)
    THEN Raise("ValueError")
    ELSE LET x1_split == [i \in 1..Len(output) |-> Split(output[i], 2, -1)[1]]
             x2_split == [i \in 1..Len(output) |-> Split(output[i], 2, -1)[2]]
         IN  IF ~CanConcatenate(x1_split, SplitAxis) \/ ~CanConcatenate(x2_split, SplitAxis)
               THEN Raise("ValueError")
               ELSE Tuple(<<Concatenate(x1_split, SplitAxis),
                            Concatenate(x2_split, SplitAxis)>>)

\* ------------------------------------------------- floating-point elements
\* Activations are floating-point numbers.  An element is an integer with at
\* most MantissaBits significant bits; every sum, difference and product is
\* rounded to the nearest such number, ties to the even mantissa.
MantissaBits == 2

Abs(v) == IF v < 0 THEN 0 - v ELSE v

RECURSIVE Pow2(_)
Pow2(n) == IF n = 0 THEN 1 ELSE 2 * Pow2(n - 1)

\* The spacing of the representable numbers around magnitude v.
RECURSIVE Ulp(_)
Ulp(v) == IF Abs(v) < Pow2(MantissaBits) THEN 1 ELSE 2 * Ulp(Abs(v) \div 2)

Fl(v) ==
  LET q  == Ulp(v)
      m  == Abs(v) \div q
      r  == Abs(v) % q
      up == (2 * r > q) \/ (2 * r = q /\ m % 2 = 1)
      a  == (IF up THEN m + 1 ELSE m) * q
  IN  IF v < 0 THEN 0 - a ELSE a

Representable(v) == Fl(v) = v

\* Broadcasting of the tensor library: two shapes of the same rank are
\* compatible when on every axis the extents are equal or one of them is 1.
Broadcastable(sa, sb) ==
  /\ Len(sa) = Len(sb)
  /\ \A d \in 1..Len(sa) : sa[d] = sb[d] \/ sa[d] = 1 \/ sb[d] = 1
BroadcastShape(sa, sb) ==
  [d \in 1..Len(sa) |-> IF sa[d] > sb[d] THEN sa[d] ELSE sb[d]]
\* The element of t (rank 3) read for position p of a result of shape out.
BroadcastAt(t, out, p) ==
  LET i0 == (p - 1) \div (out[2] * out[3])
      i1 == ((p - 1) \div out[3]) % out[2]
      i2 == (p - 1) % out[3]
  IN  At3(t, IF t.shape[1] = 1 THEN 0 ELSE i0,
             IF t.shape[2] = 1 THEN 0 ELSE i1,
             IF t.shape[3] = 1 THEN 0 ELSE i2)

\* Elementwise x + y (broadcasting) and x - y of two tensors.
TAdd(a, b) ==
  IF a.shape = b.shape
    THEN [shape |-> a.shape,
          data  |-> [i \in 1..Len(a.data) |-> Fl(a.data[i] + b.data[i])]]
  ELSE IF ~Broadcastable(a.shape, b.shape) THEN Raise("ValueError")
  ELSE LET out == BroadcastShape(a.shape, b.shape)
       IN  [shape |-> out,
            data  |-> [p \in 1..Prod(out) |->
                         Fl(BroadcastAt(a, out, p) + BroadcastAt(b, out, p))]]
TSub(a, b) == [shape |-> a.shape,
               data  |-> [i \in 1..Len(a.data) |-> Fl(a.data[i] - b.data[i])]]

\* ------------------------------------------------------------------ rng keys
\* A key is the path of splits from the root key: random.split(key, n)[i].
Key(path) == [key |-> path]
RandomSplit(key, n) == [i \in 1..n |-> Key(Append(key.key, i - 1))]

\* rngs = (None,) * n_layers; if rng is not None: rngs = random.split(rng, n)
Rngs(key, n) == IF key = None THEN [i \in 1..n |-> None] ELSE RandomSplit(key, n)

RECURSIVE KeyBits(_)
KeyBits(path) ==
  IF path = <<>> THEN 0
  ELSE 3 * KeyBits(SubSeq(path, 1, Len(path) - 1)) + path[Len(path)] + 1

\* The dropout mask drawn from a key: 1 keeps position i, 0 drops it.
Keep(key, i) == (KeyBits(key.key) \div i) % 2

\* ------------------------------------------------------- the residual layers
\* ReversibleHalfResidual wraps arbitrary residual_layers.  The ones modelled
\* have one trainable weight w, a dropout mask drawn from their rng key and
\* are nonlinear in their input t, mixing neighbouring positions:
\*   r[i] = keep[i] * w * (s[i]^2 + s[next(i)]^2),  s = sat(t)
NextPos(t, i) == (i % Len(t.data)) + 1
PrevPos(t, i) == IF i = 1 THEN Len(t.data) ELSE i - 1

\* The input saturates at SatLevel (the layers normalise their input).
Sat(v) == IF v > SatLevel THEN SatLevel ELSE IF v < 0 - SatLevel THEN 0 - SatLevel ELSE v
SatSlope(v) == IF v > SatLevel \/ v < 0 - SatLevel THEN 0 ELSE 1

\* r[i] before it is rounded.
ResidualExact(t, w, key, i) ==
  Keep(key, i) * w * (Sat(t.data[i]) * Sat(t.data[i])
                        + Sat(t.data[NextPos(t, i)]) * Sat(t.data[NextPos(t, i)]))

residual_layers(t, w, key) ==
  [shape |-> t.shape,
   data  |-> [i \in 1..Len(t.data) |-> Fl(ResidualExact(t, w, key, i))]]

\* jax.vjp of residual_layers at t: the cotangent g of its output, pulled back
\* to its input t and to its weight w.
residual_layers_vjp_x(t, w, key, g) ==
  [shape |-> t.shape,
   data  |-> [m \in 1..Len(t.data) |->
                Fl(2 * w * SatSlope(t.data[m]) * Sat(t.data[m])
                     * (Keep(key, m) * g.data[m]
                          + Keep(key, PrevPos(t, m)) * g.data[PrevPos(t, m)]))]]

RECURSIVE SumTo(_, _)
SumTo(f, n) == IF n = 0 THEN 0 ELSE SumTo(f, n - 1) + f[n]

residual_layers_vjp_w(t, w, key, g) ==
  Fl(SumTo([i \in 1..Len(t.data) |->
              Keep(key, i) * g.data[i]
                * (Sat(t.data[i]) * Sat(t.data[i])
                     + Sat(t.data[NextPos(t, i)]) * Sat(t.data[NextPos(t, i)]))],
           Len(t.data)))

\* --------------------------------------------------- ReversibleHalfResidual
\* tl.Parallel([], tl.Dup()):  x1_or_y1, x2 -> x1_or_y1, x2, x2
ParallelDup(s) == <<s[1], s[2], s[2]>>
\* tl.Swap(): exchanges the two top elements
Swap(s) == <<s[2], s[1]>> \o SubSeq(s, 3, Len(s))
\* tl.Select([2, 1, 0])
Select210(s) == <<s[3], s[2], s[1]>>
\* tl.Parallel(tl.Add(), []): residual, x1, x2 -> residual + x1, x2
AddTop(s) == <<TAdd(s[1], s[2])>> \o SubSeq(s, 3, Len(s))
\* tl.Parallel(tl.SubtractTop(), []): residual, y1, y2 -> y1 - residual, y2
SubtractTop(s) == <<TSub(s[2], s[1])>> \o SubSeq(s, 3, Len(s))

\* The rng key that reaches residual_layers inside compute_residual: the
\* Serial splits its key over its 4 sub-layers, the Parallel over its 3.
ResidualKey(key) ==
  IF key = None THEN None ELSE RandomSplit(RandomSplit(key, 4)[3], 3)[3]

compute_residual_on_x1(s, w, key) ==
  LET s1 == Swap(ParallelDup(s))
  IN  Select210(<<s1[1], s1[2], residual_layers(s1[2], w, ResidualKey(key))>>)

\* self.compute_residual:  x1_or_y1, x2 -> residual, x1_or_y1, x2
compute_residual(s, w, key) ==
  LET s1 == Swap(ParallelDup(s))
  IN  Select210(<<s1[1], s1[2], residual_layers(s1[3], w, ResidualKey(key))>>)

\* jax.vjp(call_compute_residual, s, w) applied to the cotangent c of
\* (residual, x1_or_y1, x2): back through Select, Parallel, Swap and Dup.
compute_residual_vjp(s, w, key, c) ==
  LET s1  == Swap(ParallelDup(s))
      c3  == Select210(c)
      c2  == <<c3[1], c3[2], residual_layers_vjp_x(s1[3], w, ResidualKey(key), c3[3])>>
      c1  == Swap(c2)
  IN  [x_ct |-> <<c1[1], TAdd(c1[2], c1[3])>>,
       w_ct |-> residual_layers_vjp_w(s1[3], w, ResidualKey(key), c3[3])]

\* ReversibleHalfResidual has 2 sub-layers: compute_residual and the add.
HalfNLayers == 2

\* The forward pass of the Serial [compute_residual, Parallel(Add)].
HalfResidual_forward(s, w, key) ==
  AddTop(compute_residual(s, w[1], Rngs(key, HalfNLayers)[1]))

Min(a, b) == IF a < b THEN a ELSE b

\* One layer of self.reverse_layers = [compute_residual, subtract_top].
HalfReverseLayer(i, s, p, key) ==
  IF i = 1 THEN compute_residual(s, p, key) ELSE SubtractTop(s)

\* for layer, p, s, ns, rng in zip(reverse_layers, weights, state,
\* new_state, rngs): zip stops at the shortest of its arguments.
RECURSIVE HalfReverseLoop(_, _, _, _, _)
HalfReverseLoop(s, w, rngs, i, n) ==
  IF i > n THEN s
  ELSE HalfReverseLoop(HalfReverseLayer(i, s, w[i], rngs[i]), w, rngs, i + 1, n)

HalfResidual_reverse_added(output, w, st, nst, key) ==
  AddTop(compute_residual(output, w[1], Rngs(key, HalfNLayers)[1]))

HalfResidual_reverse(output, w, st, nst, key) ==
  LET rngs == Rngs(key, HalfNLayers)
      n    == Min(Min(HalfNLayers, Len(w)), Min(Min(Len(st), Len(nst)), Len(rngs)))
  IN  HalfReverseLoop(output, w, rngs, 1, n)

HalfResidual_reverse_and_grad_single_ct(output, c, w, st, nst, key) ==
  LET rngs  == Rngs(key, HalfNLayers)
      vjp   == compute_residual_vjp(output, w[1], rngs[1], <<c[1], c[2], c[2]>>)
  IN  [x |-> SubtractTop(compute_residual(output, w[1], rngs[1])),
       x_ct |-> vjp.x_ct, w_ct |-> <<vjp.w_ct, w[Len(w)]>>]

HalfResidual_reverse_and_grad(output, c, w, st, nst, key) ==
  LET rngs  == Rngs(key, HalfNLayers)
      n_preserve == 3 - 2
  IN  IF Len(c) # n_preserve + 1 THEN Raise("AssertionError")
      ELSE LET c3 == <<c[1], c[1]>> \o Tail(c)
               stack_with_residual == compute_residual(output, w[1], rngs[1])
               vjp == compute_residual_vjp(output, w[1], rngs[1], c3)
           IN  IF w[Len(w)] # <<>> THEN Raise("AssertionError")
               ELSE [x    |-> SubtractTop(stack_with_residual),
                     x_ct |-> vjp.x_ct,
                     w_ct |-> <<vjp.w_ct, w[Len(w)]>>]

\* ------------------------------------------ ReversibleAttentionHalfResidual
\* The attention sub-layers modelled (DecoderBlock builds pre_attention from
\* Chunk, LayerNorm and the head projections, post_attention from the output
\* projection, Unchunk and dropout):
\*   pre_attention:  q = k = n,  v = wp * n,  n = clamp(chunk(t))
\*   attention:      out[i] = keep[i] * sum of v[j] over the positions j <= i
\*                   of the same row with k[j] = q[i]   (causal)
\*   post_attention: z = unchunk(keep[i] * wo * out[i]), linear in out
NAttentionChunks == 1

Clamp(v) == IF v > 1 THEN 1 ELSE IF v < 0 - 1 THEN 0 - 1 ELSE v
ClampSlope(v) == IF v > 1 \/ v < 0 - 1 THEN 0 ELSE 1

pre_attention_layers(t, wp, key) ==
  LET c == Chunk(t, NAttentionChunks)
      n == [shape |-> c.shape, data |-> [i \in 1..Len(c.data) |-> Clamp(c.data[i])]]
  IN  <<n, n, [shape |-> c.shape, data |-> [i \in 1..Len(c.data) |-> Fl(wp * n.data[i])]]>>

\* jax.vjp of pre_attention_layers at t: the cotangents of (q, k, v) pulled
\* back to t and to the weight wp.
pre_attention_layers_vjp(t, wp, key, qkv_ct) ==
  [x_ct |-> [shape |-> t.shape,
             data  |-> [i \in 1..Len(t.data) |->
                          Fl(ClampSlope(t.data[i])
                               * (qkv_ct[1].data[i] + qkv_ct[2].data[i]
                                    + wp * qkv_ct[3].data[i]))]],
   w_ct |-> Fl(SumTo([i \in 1..Len(t.data) |-> Clamp(t.data[i]) * qkv_ct[3].data[i]],
                     Len(t.data)))]

\* The row (batch entry) of the element at flat position i.
RowOf(t, i) == (i - 1) \div (Len(t.data) \div t.shape[1])
Attends(q, k, i, j) == j <= i /\ RowOf(q, i) = RowOf(q, j) /\ q.data[i] = k.data[j]

attention_forward(q, k, v, key) ==
  [shape |-> v.shape,
   data  |-> [i \in 1..Len(v.data) |->
                Fl(Keep(key, i)
                     * SumTo([j \in 1..Len(v.data) |->
                                IF Attends(q, k, i, j) THEN v.data[j] ELSE 0],
                             Len(v.data)))]]

\* attention.forward_and_backward: the output and the cotangent of (q, k, v).
attention_forward_and_backward(q, k, v, out_ct, key) ==
  LET zero == [shape |-> q.shape, data |-> [i \in 1..Len(q.data) |-> 0]]
      v_ct == [shape |-> v.shape,
               data  |-> [j \in 1..Len(v.data) |->
                            Fl(SumTo([i \in 1..Len(v.data) |->
                                        IF Attends(q, k, i, j)
                                          THEN Keep(key, i) * out_ct.data[i] ELSE 0],
                                     Len(v.data)))]]
  IN  [out |-> attention_forward(q, k, v, key), qkv_ct |-> <<zero, zero, v_ct>>]

post_attention_layers(a, wo, key) ==
  Unchunk([shape |-> a.shape,
           data  |-> [i \in 1..Len(a.data) |-> Fl(Keep(key, i) * wo * a.data[i])]],
          NAttentionChunks)

\* jax.vjp of post_attention_layers: it is linear in a, so the pull-back to a
\* does not read a; the pull-back to the weight wo does.
post_attention_layers_vjp_x(a, wo, key, g) ==
  [shape |-> a.shape,
   data  |-> [i \in 1..Len(a.data) |-> Fl(Keep(key, i) * wo * g.data[i])]]

post_attention_layers_vjp_w(a, wo, key, g) ==
  Fl(SumTo([i \in 1..Len(a.data) |-> Keep(key, i) * a.data[i] * g.data[i]],
           Len(a.data)))

\* ReversibleAttentionHalfResidual has 4 sub-layers.
AttnNLayers == 4

\* The keys that reach the wrapped layers: self.pre_attention is a Serial of
\* 3 sub-layers whose last is Parallel(pre_attention, [], []); the attention
\* wrapper and self.post_attention are Parallels of 3.
PreAttentionKey(key) ==
  IF key = None THEN None ELSE RandomSplit(RandomSplit(key, 3)[3], 3)[1]
ParallelFirstKey(key) == IF key = None THEN None ELSE RandomSplit(key, 3)[1]

pre_attention_on_x1(s, wp, key) ==
  LET s1 == Swap(ParallelDup(s))
  IN  pre_attention_layers(s1[2], wp, PreAttentionKey(key)) \o <<s1[2], s1[3]>>

\* self.pre_attention:  x1_or_y1, x2 -> q, k, v, x1_or_y1, x2
pre_attention(s, wp, key) ==
  LET s1 == Swap(ParallelDup(s))
  IN  pre_attention_layers(s1[1], wp, PreAttentionKey(key)) \o <<s1[2], s1[3]>>

\* jax.vjp(call_pre_attention, s, wp) applied to the cotangent c of
\* (q, k, v, x1_or_y1, x2).
pre_attention_vjp(s, wp, key, c) ==
  LET s1  == Swap(ParallelDup(s))
      vjp == pre_attention_layers_vjp(s1[1], wp, PreAttentionKey(key), <<c[1], c[2], c[3]>>)
      c1  == Swap(<<vjp.x_ct, c[4], c[5]>>)
  IN  [x_ct |-> <<c1[1], TAdd(c1[2], c1[3])>>, w_ct |-> vjp.w_ct]

\* ApplyAttentionWrapper (forward of tl.Parallel(attention, [], [])).
ApplyAttention(s, key) ==
  <<attention_forward(s[1], s[2], s[3], ParallelFirstKey(key))>> \o SubSeq(s, 4, Len(s))

ApplyAttention_forward_and_backward_no_resplit(inputs, c, key) ==
  LET fb == attention_forward_and_backward(inputs[1], inputs[2], inputs[3], c[1], key)
  IN  [stack |-> <<fb.out>> \o SubSeq(inputs, 4, Len(inputs)),
       ct    |-> fb.qkv_ct \o Tail(c)]

\* ApplyAttentionWrapper.forward_and_backward
ApplyAttention_forward_and_backward(inputs, c, key) ==
  LET fb == attention_forward_and_backward(inputs[1], inputs[2], inputs[3], c[1],
                                           ParallelFirstKey(key))
  IN  [stack |-> <<fb.out>> \o SubSeq(inputs, 4, Len(inputs)),
       ct    |-> fb.qkv_ct \o Tail(c)]

\* self.post_attention = tl.Parallel(post_attention, [], [])
post_attention(s, wo, key) ==
  <<post_attention_layers(s[1], wo, ParallelFirstKey(key))>> \o Tail(s)

\* The forward pass of the Serial
\* [pre_attention, attention, post_attention, Parallel(Add, [])].
AttnHalfResidual_forward(s, w, key) ==
  LET rngs == Rngs(key, AttnNLayers)
  IN  AddTop(post_attention(ApplyAttention(pre_attention(s, w[1], rngs[1]), rngs[2]),
                            w[3], rngs[3]))

\* layer.reverse on a tl.Serial or tl.Parallel layer: a plain Layer has
\* only the forward contract, the inverse belongs to reversible layers.
PlainLayer_reverse == Raise("AttributeError")

\* reverse calls layer.reverse on each of self.reverse_layers, which are
\* tl.Serial and tl.Parallel layers: a plain layer has only a forward
\* contract, so the first call raises.  zip stops at the shortest argument.
AttnHalfResidual_reverse(output, w, st, nst, key) ==
  LET rngs == Rngs(key, AttnNLayers)
      n    == Min(Min(AttnNLayers, Len(w)), Min(Min(Len(st), Len(nst)), Len(rngs)))
  IN  IF n = 0 THEN Tuple(output) ELSE PlainLayer_reverse

AttnHalfResidual_reverse_and_grad_dummy_weights(output, c, w, st, nst, key) ==
  LET rngs == Rngs(key, AttnNLayers)
  IN  IF Len(c) # 2 THEN Raise("AssertionError")
      ELSE
        LET stack0   == pre_attention(output, w[1], rngs[1])
            saved_ct == <<c[1], c[1], c[2]>>
            \* dummy_inputs = (stack[-3], stack[-2], stack[-1])
            dummy    == SubSeq(stack0, Len(stack0) - 2, Len(stack0))
            ct1      == <<post_attention_layers_vjp_x(dummy[1], w[3],
                                                      ParallelFirstKey(rngs[3]), saved_ct[1])>>
                          \o Tail(saved_ct)
            fb       == ApplyAttention_forward_and_backward(stack0, ct1, rngs[2])
            pre      == pre_attention_vjp(output, w[1], rngs[1], fb.ct)
            post_w   == post_attention_layers_vjp_w(dummy[1], w[3],
                                                    ParallelFirstKey(rngs[3]), saved_ct[1])
            stack2   == post_attention(fb.stack, w[3], rngs[3])
        IN  IF w[2] # <<>> \/ w[Len(w)] # <<>> THEN Raise("AssertionError")
            ELSE [x    |-> SubtractTop(stack2),
                  x_ct |-> pre.x_ct,
                  w_ct |-> <<pre.w_ct, w[2], post_w, w[Len(w)]>>]

AttnHalfResidual_reverse_and_grad(output, c, w, st, nst, key) ==
  LET rngs == Rngs(key, AttnNLayers)
  IN  IF Len(c) # 2 THEN Raise("AssertionError")
      ELSE
        LET stack0   == pre_attention(output, w[1], rngs[1])
            saved_ct == <<c[1], c[1], c[2]>>
            \* dummy_inputs = (stack[-3], stack[-2], stack[-1])
            dummy    == SubSeq(stack0, Len(stack0) - 2, Len(stack0))
            ct1      == <<post_attention_layers_vjp_x(dummy[1], w[3],
                                                      ParallelFirstKey(rngs[3]), saved_ct[1])>>
                          \o Tail(saved_ct)
            fb       == ApplyAttention_forward_and_backward(stack0, ct1, rngs[2])
            pre      == pre_attention_vjp(output, w[1], rngs[1], fb.ct)
            post_w   == post_attention_layers_vjp_w(fb.stack[1], w[3],
                                                    ParallelFirstKey(rngs[3]), saved_ct[1])
            stack2   == post_attention(fb.stack, w[3], rngs[3])
        IN  IF w[2] # <<>> \/ w[Len(w)] # <<>> THEN Raise("AssertionError")
            ELSE [x    |-> SubtractTop(stack2),
                  x_ct |-> pre.x_ct,
                  w_ct |-> <<pre.w_ct, w[2], post_w, w[Len(w)]>>]

SplitForOutput_reverse_and_grad_ct_swapped(output, c) ==
  LET rx == SplitForOutput_reverse(output)
      rc == SplitForOutput_reverse_swapped(c)
  IN  IF IsError(rx) THEN rx
      ELSE IF IsError(rc) THEN rc
      ELSE [x |-> rx.tuple, x_ct |-> rc.tuple, w_ct |-> <<>>]

\* SplitForOutput.reverse_and_grad: (reverse(output), (reverse(ct), ()))
SplitForOutput_reverse_and_grad(output, c) ==
  LET rx == SplitForOutput_reverse(output)
      rc == SplitForOutput_reverse(c)
  IN  IF IsError(rx) THEN rx
      ELSE IF IsError(rc) THEN rc
      ELSE [x |-> rx.tuple, x_ct |-> rc.tuple, w_ct |-> <<>>]

\* ------------------------------------------------------- the reversible chain
\* DecoderBlock returns [ReversibleAttentionHalfResidual, ReversibleSwap,
\* ReversibleHalfResidual, ReversibleSwap].
DecoderBlock == <<"attn", "swap", "half", "swap">>

\* ReformerLM: tl.ReversibleSerial(decoder_blocks + [SplitForOutput(...)]).
ChainLayers(nb) ==
  [i \in 1..(4 * nb + 1) |-> IF i = 4 * nb + 1 THEN "split" ELSE DecoderBlock[((i - 1) % 4) + 1]]

\* The weights and the state of a step: one entry per sub-layer.
StepWeights(kind, wa, wf) ==
  CASE kind = "attn" -> <<wa, <<>>, wa, <<>>>>
    [] kind = "half" -> <<wf, <<>>>>
    [] OTHER -> <<>>
StepState(kind) ==
  CASE kind = "attn" -> << <<>>, <<>>, <<>>, <<>> >>
    [] kind = "half" -> << <<>>, <<>> >>
    [] OTHER -> <<>>

\* tl.ReversibleSwap: forward and reverse both exchange the two streams.
ReversibleSwap_reverse_and_grad(output, c) ==
  [x |-> Swap(output), x_ct |-> Swap(c), w_ct |-> <<>>]

StepForward(kind, s, w, key, n) ==
  CASE kind = "attn"  -> Tuple(AttnHalfResidual_forward(s, w, key))
    [] kind = "half"  -> Tuple(HalfResidual_forward(s, w, key))
    [] kind = "swap"  -> Tuple(Swap(s))
    [] kind = "split" -> SplitForOutput_forward(s[1], s[2], n)

StepReverse(kind, output, w, st, nst, key) ==
  CASE kind = "attn"  -> AttnHalfResidual_reverse(output, w, st, nst, key)
    [] kind = "half"  -> Tuple(HalfResidual_reverse(output, w, st, nst, key))
    [] kind = "swap"  -> Tuple(Swap(output))
    [] kind = "split" -> SplitForOutput_reverse(output)

StepReverseAndGrad(kind, output, c, w, st, nst, key) ==
  CASE kind = "attn"  -> AttnHalfResidual_reverse_and_grad(output, c, w, st, nst, key)
    [] kind = "half"  -> HalfResidual_reverse_and_grad(output, c, w, st, nst, key)
    [] kind = "swap"  -> ReversibleSwap_reverse_and_grad(output, c)
    [] kind = "split" -> SplitForOutput_reverse_and_grad(output, c)

\* Variables of the other layers, while a specification does not use them.
ChunkIdle ==
  /\ x = None /\ chunked = None /\ unchunked = None /\ unchunked_raw = None
SplitIdle == split_out = None /\ split_rev = None
PairIdle == x1 = None /\ x2 = None
HalfIdle ==
  /\ weights = None /\ state = None /\ new_state = None /\ rng = None /\ ct = None
  /\ y = None /\ reconstructed_x = None /\ rg = None
LayerIdle == layer = None /\ call_inputs = None /\ result = None
ChainIdle ==
  /\ n_blocks = None /\ pc = None /\ pos = None /\ stack = None /\ stack_ct = None
  /\ weights_ct = None /\ live = None /\ calls = None /\ fwd_trace = None

\* ------------------------------------------------- specification SpecChunk
ChunkShapes ==
  {<<b, l>> : b \in 1..MaxBatch, l \in 1..MaxLen}
    \cup {<<b, l, d>> : b \in 1..MaxBatch, l \in 1..MaxLen, d \in 1..MaxFeat}

ChunkInit ==
  /\ n_sections \in 1..MaxSections
  /\ \E s \in ChunkShapes : x = Iota(s, 0)
  /\ chunked = None
  /\ unchunked = None
  /\ unchunked_raw = None
  /\ SplitIdle /\ PairIdle /\ HalfIdle /\ ChainIdle
  /\ LayerIdle

DoChunk ==
  /\ chunked = None
  /\ chunked' = Chunk(x, n_sections)
  /\ UNCHANGED <<n_sections, x, unchunked, unchunked_raw>>
  /\ UNCHANGED <<splitOnly, pairVars, halfOnly, chainOnly>>
  /\ UNCHANGED layerVars

DoUnchunk ==
  /\ IsTensor(chunked)
  /\ unchunked = None
  /\ unchunked' = Unchunk(chunked, n_sections)
  /\ UNCHANGED <<n_sections, x, chunked, unchunked_raw>>
  /\ UNCHANGED <<splitOnly, pairVars, halfOnly, chainOnly>>
  /\ UNCHANGED layerVars

DoUnchunkRaw ==
  /\ unchunked_raw = None
  /\ unchunked_raw' = Unchunk(x, n_sections)
  /\ UNCHANGED <<n_sections, x, chunked, unchunked>>
  /\ UNCHANGED <<splitOnly, pairVars, halfOnly, chainOnly>>
  /\ UNCHANGED layerVars

ChunkNext == DoChunk \/ DoUnchunk \/ DoUnchunkRaw

SpecChunk == ChunkInit /\ [][ChunkNext]_vars

\* C7: when n_sections divides the length, Chunk yields shape
\* [batch*n_sections, length/n_sections, ...] and Unchunk of that result is
\* x again, shape and every element.
C7_ChunkRoundTrip ==
  (x.shape[2] % n_sections = 0) =>
    /\ chunked # None =>
         /\ IsTensor(chunked)
         /\ chunked.shape = <<x.shape[1] * n_sections, x.shape[2] \div n_sections>>
                              \o ShapeFrom2(x)
         /\ Len(chunked.data) = Len(x.data)
    /\ unchunked # None =>
         /\ IsTensor(unchunked)
         /\ unchunked.shape = x.shape
         /\ \A i \in 1..Len(x.data) : unchunked.data[i] = x.data[i]

C7_Witness ==
  /\ n_sections > 1
  /\ x.shape[2] % n_sections = 0
  /\ x.shape[2] > n_sections
  /\ IsTensor(unchunked)

\* C8: Chunk on a length not divisible by n_sections fails and yields no
\* tensor; so does Unchunk on an axis 0 not divisible by n_sections.
C8_DivisibilityRejected ==
  /\ (chunked # None /\ x.shape[2] % n_sections # 0) => IsError(chunked)
  /\ (unchunked_raw # None /\ x.shape[1] % n_sections # 0) => IsError(unchunked_raw)

C8_Witness ==
  /\ x.shape[2] % n_sections # 0
  /\ IsError(chunked)
  /\ x.shape[1] % n_sections # 0
  /\ IsError(unchunked_raw)

\* ------------------------------------------------- specification SpecSplit
\* The two streams have shape [B, L, D1] and [B, L, D2]; ReformerLM feeds
\* streams of equal shape (D1 = D2).
SplitInit ==
  /\ n_sections \in 1..MaxSections
  /\ \E b \in 1..MaxBatch, l \in 1..MaxLen, d1 \in 1..MaxFeat, d2 \in 1..MaxFeat :
       /\ x1 = Iota(<<b, l, d1>>, 0)
       /\ x2 = Iota(<<b, l, d2>>, 100)
  /\ split_out = None
  /\ split_rev = None
  /\ ChunkIdle /\ HalfIdle /\ ChainIdle
  /\ LayerIdle

SplitForward ==
  /\ split_out = None
  /\ split_out' = SplitForOutput_forward(x1, x2, n_sections)
  /\ UNCHANGED <<x1, x2, split_rev>>
  /\ UNCHANGED <<n_sections, chunkOnly, halfOnly, chainOnly>>
  /\ UNCHANGED layerVars

SplitReverse ==
  /\ IsTuple(split_out)
  /\ split_rev = None
  /\ split_rev' = SplitForOutput_reverse(split_out.tuple)
  /\ UNCHANGED <<x1, x2, split_out>>
  /\ UNCHANGED <<n_sections, chunkOnly, halfOnly, chainOnly>>
  /\ UNCHANGED layerVars

\* The cotangent of the output: one tensor per section, every element
\* different from every other.
SplitCt(out, base) ==
  [k \in 1..Len(out) |-> Iota(out[k].shape, base + 100 * k)]

SplitReverseAndGrad ==
  /\ IsTuple(split_out)
  /\ rg = None
  /\ \E base \in {0, 1000} :
       /\ ct' = SplitCt(split_out.tuple, base)
       /\ rg' = SplitForOutput_reverse_and_grad(split_out.tuple, ct')
  /\ UNCHANGED <<x1, x2, split_out, split_rev>>
  /\ UNCHANGED <<n_sections, chunkOnly, chainOnly>>
  /\ UNCHANGED <<weights, state, new_state, rng, y, reconstructed_x>>
  /\ UNCHANGED layerVars

SplitNext == SplitForward \/ SplitReverse \/ SplitReverseAndGrad

SpecSplit == SplitInit /\ [][SplitNext]_vars

\* C9: for (x1, x2) of equal shape with the sequence axis divisible by
\* n_sections, reverse(forward((x1, x2))) is (x1, x2) exactly.
C9_SplitRoundTrip ==
  (x1.shape = x2.shape /\ x1.shape[2] % n_sections = 0) =>
    /\ split_out # None => IsTuple(split_out)
    /\ split_rev # None => split_rev = Tuple(<<x1, x2>>)

C9_Witness ==
  /\ x1.shape = x2.shape
  /\ n_sections > 1
  /\ x1.shape[2] > n_sections
  /\ x1.shape[3] > 1
  /\ IsTuple(split_rev)

\* C10: forward on [B, L, D] streams returns n_sections tensors of shape
\* [B, L/n_sections, 2D]; section i holds, at [b, j, k], x1[b, i*L/n + j, k]
\* for k < D and x2[b, i*L/n + j, k - D] for k >= D; the whole is the split
\* along the sequence axis of the feature-axis concatenation of x1 and x2.
C10_SplitSections ==
  (x1.shape = x2.shape /\ x1.shape[2] % n_sections = 0 /\ split_out # None) =>
    LET B  == x1.shape[1]
        sz == x1.shape[2] \div n_sections
        D  == x1.shape[3]
    IN  /\ IsTuple(split_out)
        /\ Len(split_out.tuple) = n_sections
        /\ \A i \in 1..n_sections :
             /\ split_out.tuple[i].shape = <<B, sz, 2 * D>>
             /\ \A b \in 0..(B - 1), j \in 0..(sz - 1), k \in 0..(2 * D - 1) :
                  At3(split_out.tuple[i], b, j, k) =
                    IF k < D THEN At3(x1, b, (i - 1) * sz + j, k)
                             ELSE At3(x2, b, (i - 1) * sz + j, k - D)
        /\ split_out.tuple = Split(Concatenate(<<x1, x2>>, -1), n_sections, SplitAxis)

C10_Witness ==
  /\ x1.shape = x2.shape
  /\ n_sections > 1
  /\ x1.shape[2] > n_sections
  /\ x1.shape[3] > 1
  /\ x1.shape[1] > 1
  /\ IsTuple(split_out)

\* -------------------------------------------------- specification SpecHalf
\* One ReversibleHalfResidual step on streams of shape [1, 2, 1].
HalfShape == <<1, 2, 1>>
Elems == {v \in (0 - MaxVal)..MaxVal : Representable(v)}
HalfTensors == {[shape |-> HalfShape, data |-> <<a, b>>] : a \in Elems, b \in Elems}
CtTensors == {[shape |-> HalfShape, data |-> d] : d \in {<<1, 0>>, <<0, 0 - 1>>, <<1, 1>>}}

HalfInit ==
  /\ x1 \in HalfTensors
  /\ x2 \in HalfTensors
  /\ \E w \in 1..MaxWeight : weights = <<w, <<>>>>
  /\ state = << <<>>, <<>> >>
  /\ new_state = << <<>>, <<>> >>
  /\ \E k \in 0..MaxKey : rng = Key(<<k>>)
  /\ \E g1 \in CtTensors, g2 \in CtTensors : ct = <<g1, g2>>
  /\ y = None
  /\ reconstructed_x = None
  /\ rg = None
  /\ n_sections = None
  /\ ChunkIdle /\ SplitIdle /\ ChainIdle
  /\ LayerIdle

HalfForward ==
  /\ y = None
  /\ y' = Tuple(HalfResidual_forward(<<x1, x2>>, weights, rng))
  /\ UNCHANGED <<weights, state, new_state, rng, ct, reconstructed_x, rg>>
  /\ UNCHANGED <<n_sections, chunkOnly, splitOnly, pairVars, chainOnly>>
  /\ UNCHANGED layerVars

HalfReverse ==
  /\ y # None
  /\ reconstructed_x = None
  /\ reconstructed_x' = Tuple(HalfResidual_reverse(y.tuple, weights, state, new_state, rng))
  /\ UNCHANGED <<weights, state, new_state, rng, ct, y, rg>>
  /\ UNCHANGED <<n_sections, chunkOnly, splitOnly, pairVars, chainOnly>>
  /\ UNCHANGED layerVars

HalfReverseAndGrad ==
  /\ y # None
  /\ rg = None
  /\ rg' = HalfResidual_reverse_and_grad(y.tuple, ct, weights, state, new_state, rng)
  /\ UNCHANGED <<weights, state, new_state, rng, ct, y, reconstructed_x>>
  /\ UNCHANGED <<n_sections, chunkOnly, splitOnly, pairVars, chainOnly>>
  /\ UNCHANGED layerVars

HalfNext == HalfForward \/ HalfReverse \/ HalfReverseAndGrad

SpecHalf == HalfInit /\ [][HalfNext]_vars

\* The residual the step adds: the residual layers on the preserved stream.
HalfResidualOf(t) == residual_layers(t, weights[1], ResidualKey(Rngs(rng, HalfNLayers)[1]))

\* C1 as stated: reverse(forward(x1, x2)) is exactly (x1, x2).
C1_ReverseExact ==
  reconstructed_x # None => reconstructed_x = Tuple(<<x1, x2>>)

\* C1, amended: reverse(forward(x1, x2)) returns x2 exactly and x1 up to the
\* rounding of the add and the subtract: every element is within one unit in
\* the last place at magnitude |x1| + |r|, and is exact wherever x1 + r is
\* representable.
C1_ReverseWithinRounding ==
  reconstructed_x # None =>
    LET r == HalfResidualOf(x2)
    IN  /\ Len(reconstructed_x.tuple) = 2
        /\ reconstructed_x.tuple[2] = x2
        /\ reconstructed_x.tuple[1].shape = x1.shape
        /\ \A i \in 1..Len(x1.data) :
             /\ Abs(reconstructed_x.tuple[1].data[i] - x1.data[i])
                  <= Ulp(Abs(x1.data[i]) + Abs(r.data[i]))
             /\ Representable(x1.data[i] + r.data[i])
                  => reconstructed_x.tuple[1].data[i] = x1.data[i]

C1_Witness ==
  /\ reconstructed_x # None
  /\ \E i \in 1..Len(x1.data) :
       /\ ~Representable(x1.data[i] + HalfResidualOf(x2).data[i])
       /\ reconstructed_x.tuple[1].data[i] # x1.data[i]
  /\ \E i \in 1..Len(x1.data) :
       /\ HalfResidualOf(x2).data[i] # 0
       /\ reconstructed_x.tuple[1].data[i] = x1.data[i]

\* C3: forward returns (x1 + r, x2) with r computed by the residual layers
\* from x2 only: the second stream is x2 unchanged and the residual is the
\* same whatever the first stream holds.
C3_ResidualFromPreservedStream ==
  y # None =>
    /\ Len(y.tuple) = 2
    /\ y.tuple[2] = x2
    /\ y.tuple[1] = TAdd(x1, HalfResidualOf(x2))
    /\ \A a \in HalfTensors :
         compute_residual(<<a, x2>>, weights[1], Rngs(rng, HalfNLayers)[1])
           = <<HalfResidualOf(x2), a, x2>>

C3_Witness ==
  /\ y # None
  /\ HalfResidualOf(x2) # HalfResidualOf(x1)
  /\ y.tuple[1] # x1

\* The gradient of a sum: the cotangent of residual + x1 goes to both.
AddTop_vjp(c) == <<c[1], c[1]>> \o Tail(c)

\* The naive path: reconstruct the input with reverse, run the forward pass
\* [compute_residual, add] again from it keeping the activations, and
\* backpropagate the cotangent through the add and then compute_residual.
NaiveReverseAndGrad(output, c, w, st, nst, key) ==
  LET x_rec == HalfResidual_reverse(output, w, st, nst, key)
      vjp   == compute_residual_vjp(x_rec, w[1], Rngs(key, HalfNLayers)[1], AddTop_vjp(c))
  IN  [x |-> x_rec, x_ct |-> vjp.x_ct, w_ct |-> <<vjp.w_ct, <<>>>>]

\* Twice the derivative of sum_i g[i] * r[i] in t[m], by central difference
\* (exact: r is quadratic in t), and its derivative in w (r is linear in w).
Shift(t, m, d) == [t EXCEPT !.data[m] = @ + d]
CentralDiffX(t, w, key, g, m) ==
  SumTo([i \in 1..Len(t.data) |->
           g.data[i] * (ResidualExact(Shift(t, m, 1), w, key, i)
                          - ResidualExact(Shift(t, m, 0 - 1), w, key, i))],
        Len(t.data))
ForwardDiffW(t, w, key, g) ==
  SumTo([i \in 1..Len(t.data) |->
           g.data[i] * (ResidualExact(t, w + 1, key, i) - ResidualExact(t, w, key, i))],
        Len(t.data))

\* C2: reverse_and_grad returns what the naive path returns: the same
\* reconstructed input, grad_x1 = g1, grad_x2 = g2 + (df/dx2)^T g1,
\* grad_weights = ((df/dw)^T g1, ()) with the add step's gradient empty.
C2_FusedMatchesNaive ==
  rg # None =>
    LET key == ResidualKey(Rngs(rng, HalfNLayers)[1])
        w   == weights[1]
        JTg == [shape |-> x2.shape,
                data  |-> [m \in 1..Len(x2.data) |->
                             Fl(CentralDiffX(x2, w, key, ct[1], m) \div 2)]]
    IN  /\ ~IsError(rg)
        /\ rg = NaiveReverseAndGrad(y.tuple, ct, weights, state, new_state, rng)
        /\ rg.x_ct = <<ct[1], TAdd(ct[2], JTg)>>
        /\ rg.w_ct = <<Fl(ForwardDiffW(x2, w, key, ct[1])), <<>>>>

C2_Witness ==
  /\ rg # None
  /\ ~IsError(rg)
  /\ rg.x_ct[2] # ct[2]
  /\ rg.w_ct[1] # 0
  /\ rg.x[1] # y.tuple[1]

\* ------------------------------------------------- specification SpecChain
\* The chain runner (tl.ReversibleSerial) over n_blocks decoder blocks and the
\* final SplitForOutput.  Forward it applies the steps left to right and
\* keeps only the activations it has reached.  It then either walks back
\* with reverse_and_grad (the backward pass) or with reverse.
NSteps == 4 * n_blocks + 1
KindOf(i) == ChainLayers(n_blocks)[i]
StepKey(i) == Rngs(rng, NSteps)[i]

ChainX1 == {[shape |-> HalfShape, data |-> d] : d \in {<<1, 0>>, <<0 - 1, 1>>}}
ChainX2 == {[shape |-> HalfShape, data |-> d] : d \in {<<1, 1>>, <<0, 1>>, <<1, 0 - 1>>}}
ChainCt == {[shape |-> HalfShape, data |-> d] : d \in {<<1, 0>>, <<1, 1>>}}
ChainSections == {n \in 1..MaxSections : HalfShape[2] % n = 0}

ChainInit ==
  /\ n_blocks \in 1..MaxBlocks
  /\ n_sections \in ChainSections
  /\ x1 \in ChainX1
  /\ x2 \in ChainX2
  /\ \E w \in 1..MaxWeight :
       weights = [i \in 1..NSteps |-> StepWeights(KindOf(i), w, w)]
  /\ state = [i \in 1..NSteps |-> StepState(KindOf(i))]
  /\ new_state = [i \in 1..NSteps |-> StepState(KindOf(i))]
  /\ \E k \in 0..MaxKey : rng = Key(<<k>>)
  /\ \E g \in ChainCt : ct = <<g, [g EXCEPT !.data[1] = 0 - 1]>>
  /\ pc = "forward"
  /\ pos = 0
  /\ stack = Tuple(<<x1, x2>>)
  /\ stack_ct = None
  /\ weights_ct = <<>>
  /\ live = {0}
  /\ calls = <<>>
  /\ fwd_trace = <<>>
  /\ y = None /\ reconstructed_x = None /\ rg = None
  /\ ChunkIdle /\ SplitIdle
  /\ LayerIdle

chainFrame == <<n_sections, chunkOnly, splitOnly, pairVars, halfOnly, n_blocks>>

\* Forward: step pos+1 turns the activations at boundary pos into those at
\* boundary pos+1; its input is not kept.
ChainForwardStep_retaining ==
  /\ pc = "forward"
  /\ pos < NSteps
  /\ LET out == StepForward(KindOf(pos + 1), stack.tuple, weights[pos + 1],
                            StepKey(pos + 1), n_sections)
     IN  /\ stack' = out
         /\ pc' = IF IsError(out) THEN "failed" ELSE "forward"
         /\ pos' = pos + 1
         /\ live' = live \cup {pos + 1}
         /\ fwd_trace' = Append(fwd_trace, stack)
  /\ UNCHANGED <<stack_ct, weights_ct, calls>>
  /\ UNCHANGED chainFrame
  /\ UNCHANGED layerVars

ChainForwardStep ==
  /\ pc = "forward"
  /\ pos < NSteps
  /\ LET out == StepForward(KindOf(pos + 1), stack.tuple, weights[pos + 1],
                            StepKey(pos + 1), n_sections)
     IN  /\ stack' = out
         /\ pc' = IF IsError(out) THEN "failed" ELSE "forward"
         /\ pos' = pos + 1
         /\ live' = (live \ {pos}) \cup {pos + 1}
         /\ fwd_trace' = Append(fwd_trace, stack)
  /\ UNCHANGED <<stack_ct, weights_ct, calls>>
  /\ UNCHANGED chainFrame
  /\ UNCHANGED layerVars

\* The backward pass starts from the cotangent of the chain's output.
ChainStartBackward ==
  /\ pc = "forward"
  /\ pos = NSteps
  /\ pc' = "backward"
  /\ stack_ct' = SplitForOutput_forward(ct[1], ct[2], n_sections)
  /\ UNCHANGED <<pos, stack, weights_ct, live, calls, fwd_trace>>
  /\ UNCHANGED chainFrame
  /\ UNCHANGED layerVars

\* The runner calls step pos's reverse_and_grad with the activations and the
\* cotangent it holds.
ChainBackwardCall ==
  /\ pc = "backward"
  /\ pos >= 1
  /\ pc' = "in_call"
  /\ calls' = Append(calls, [step |-> pos, output |-> stack, ct |-> stack_ct,
                             returned |-> None])
  /\ UNCHANGED <<pos, stack, stack_ct, weights_ct, live, fwd_trace>>
  /\ UNCHANGED chainFrame
  /\ UNCHANGED layerVars

\* The call returns the step's reconstructed input and the gradients.
ChainBackwardReturn ==
  /\ pc = "in_call"
  /\ LET res == StepReverseAndGrad(KindOf(pos), stack.tuple, stack_ct.tuple, weights[pos],
                                   state[pos], new_state[pos], StepKey(pos))
     IN  /\ calls' = [calls EXCEPT ![Len(calls)].returned = res]
         /\ pc' = IF IsError(res) THEN "failed" ELSE "returned"
         /\ live' = IF IsError(res) THEN live ELSE live \cup {pos - 1}
  /\ UNCHANGED <<pos, stack, stack_ct, weights_ct, fwd_trace>>
  /\ UNCHANGED chainFrame
  /\ UNCHANGED layerVars

\* The runner takes the reconstructed input and the input gradient as its
\* stack and cotangent for the step before; the step's output is released.
ChainBackwardRebind_keeping_ct ==
  /\ pc = "returned"
  /\ LET res == calls[Len(calls)].returned
     IN  /\ stack' = Tuple(res.x)
         /\ weights_ct' = <<res.w_ct>> \o weights_ct
  /\ pos' = pos - 1
  /\ live' = {pos - 1}
  /\ pc' = IF pos - 1 = 0 THEN "done" ELSE "backward"
  /\ UNCHANGED <<stack_ct, calls, fwd_trace>>
  /\ UNCHANGED chainFrame
  /\ UNCHANGED layerVars

ChainBackwardRebind ==
  /\ pc = "returned"
  /\ LET res == calls[Len(calls)].returned
     IN  /\ stack' = Tuple(res.x)
         /\ stack_ct' = Tuple(res.x_ct)
         /\ weights_ct' = <<res.w_ct>> \o weights_ct
  /\ pos' = pos - 1
  /\ live' = {pos - 1}
  /\ pc' = IF pos - 1 = 0 THEN "done" ELSE "backward"
  /\ UNCHANGED <<calls, fwd_trace>>
  /\ UNCHANGED chainFrame
  /\ UNCHANGED layerVars

\* The walk back with reverse alone.
ChainStartReverse ==
  /\ pc = "forward"
  /\ pos = NSteps
  /\ pc' = "reverse"
  /\ UNCHANGED <<pos, stack, stack_ct, weights_ct, live, calls, fwd_trace>>
  /\ UNCHANGED chainFrame
  /\ UNCHANGED layerVars

ChainReverseStep ==
  /\ pc = "reverse"
  /\ pos >= 1
  /\ LET res == StepReverse(KindOf(pos), stack.tuple, weights[pos], state[pos],
                            new_state[pos], StepKey(pos))
     IN  /\ stack' = res
         /\ pc' = IF IsError(res) THEN "reverse_failed"
                  ELSE IF pos - 1 = 0 THEN "reversed" ELSE "reverse"
         /\ pos' = IF IsError(res) THEN pos ELSE pos - 1
         /\ live' = IF IsError(res) THEN live ELSE {pos - 1}
  /\ UNCHANGED <<stack_ct, weights_ct, calls, fwd_trace>>
  /\ UNCHANGED chainFrame
  /\ UNCHANGED layerVars

ChainNext ==
  \/ ChainForwardStep
  \/ ChainStartBackward
  \/ ChainBackwardCall
  \/ ChainBackwardReturn
  \/ ChainBackwardRebind
  \/ ChainStartReverse
  \/ ChainReverseStep

SpecChain == ChainInit /\ [][ChainNext]_vars

\* ------------------------------------------------------------ chain claims

HasReturned(c) == DOMAIN c.returned = {"x", "x_ct", "w_ct"}

\* C4: in the backward pass the reverse_and_grad calls happen in the order
\* N, N-1, ..., 1; the call for step i starts only after the call for step
\* i+1 has returned, its output argument is exactly the input that call
\* reconstructed and its cotangent is exactly the input gradient that call
\* returned.
C4_BackwardCallOrder ==
  \A m \in 1..Len(calls) :
    /\ calls[m].step = NSteps - m + 1
    /\ m > 1 => /\ HasReturned(calls[m - 1])
                /\ calls[m].output = Tuple(calls[m - 1].returned.x)
                /\ calls[m].ct = Tuple(calls[m - 1].returned.x_ct)

C4_Witness ==
  /\ pc = "done"
  /\ NSteps >= 9
  /\ Len(calls) = NSteps
  /\ calls[NSteps].step = 1
  /\ HasReturned(calls[NSteps])

\* C5: after a forward pass over a chain of decoder blocks, the walk back with
\* reverse alone does not stop before the chain's input, at every boundary it
\* holds the pair the forward pass produced there, and it ends with the
\* original (x1, x2).
C5_ReverseWalkReconstructs ==
  /\ pc # "reverse_failed"
  /\ pc = "reversed" => stack = Tuple(<<x1, x2>>)

\* C6: the number of boundaries whose activations are live never exceeds two,
\* whatever the length of the chain: during the forward pass and after it only
\* the newest boundary is live, during a reverse_and_grad call only its output
\* is, and the output is released once the runner has taken the reconstructed
\* input.
C6_LivePairsBounded ==
  /\ Cardinality(live) <= 2
  /\ pc \in {"forward", "backward", "in_call", "done", "reverse", "reversed"}
       => live = {pos}
  /\ pc = "returned" => live = {pos - 1, pos}

C6_Witness ==
  /\ pc = "backward"
  /\ NSteps >= 9
  /\ pos = 1
  /\ Len(calls) = NSteps - 1
  /\ live = {1}

\* ------------------------------------------------- specification SpecAttn
\* One ReversibleAttentionHalfResidual step: forward, reverse, reverse_and_grad.

\* The keys that reach pre_attention, attention and post_attention when the
\* step is ReversibleAttentionHalfResidual: the parent key is split over the
\* 4 sub-layers, then routed through the wrapping Serial / Parallel.
FusedAttnKeys(key) ==
  LET rngs == Rngs(key, AttnNLayers)
  IN  [pre  |-> PreAttentionKey(rngs[1]),
       att  |-> ParallelFirstKey(rngs[2]),
       post |-> ParallelFirstKey(rngs[3])]

\* The keys that reach them when the step is
\* ReversibleHalfResidual([pre_attention, attention, post_attention]): the
\* parent key is split over the 2 sub-layers, compute_residual routes its key
\* to residual_layers, and that Serial splits it over its sub-layers.
PlainAttnKeys(key) ==
  LET k == ResidualKey(Rngs(key, HalfNLayers)[1])
  IN  [pre |-> Rngs(k, 3)[1], att |-> Rngs(k, 3)[2], post |-> Rngs(k, 3)[3]]

\* residual_layers = [pre_attention, attention, post_attention], given the
\* keys ks that reach the three.
AttnResidual(t, wp, wo, ks) ==
  LET qkv == pre_attention_layers(t, wp, ks.pre)
  IN  post_attention_layers(attention_forward(qkv[1], qkv[2], qkv[3], ks.att), wo, ks.post)

\* jax.vjp of that residual function at t, applied to the cotangent g.
AttnResidual_vjp(t, wp, wo, ks, g) ==
  LET qkv    == pre_attention_layers(t, wp, ks.pre)
      a      == attention_forward(qkv[1], qkv[2], qkv[3], ks.att)
      a_ct   == post_attention_layers_vjp_x(a, wo, ks.post, g)
      qkv_ct == attention_forward_and_backward(qkv[1], qkv[2], qkv[3], a_ct, ks.att).qkv_ct
      pre    == pre_attention_layers_vjp(t, wp, ks.pre, qkv_ct)
  IN  [x_ct |-> pre.x_ct,
       w_ct |-> <<pre.w_ct, <<>>, post_attention_layers_vjp_w(a, wo, ks.post, g)>>]

\* ReversibleHalfResidual over that residual function: compute_residual.
PlainAttn_compute_residual(s, wp, wo, ks) ==
  LET s1 == Swap(ParallelDup(s))
  IN  Select210(<<s1[1], s1[2], AttnResidual(s1[3], wp, wo, ks)>>)

PlainAttn_forward(s, wp, wo, ks) == AddTop(PlainAttn_compute_residual(s, wp, wo, ks))

PlainAttn_reverse_and_grad(output, c, wp, wo, ks) ==
  LET c3  == Select210(<<c[1], c[1]>> \o Tail(c))
      s1  == Swap(ParallelDup(output))
      vjp == AttnResidual_vjp(s1[3], wp, wo, ks, c3[3])
      c1  == Swap(<<c3[1], c3[2], vjp.x_ct>>)
  IN  [x    |-> SubtractTop(PlainAttn_compute_residual(output, wp, wo, ks)),
       x_ct |-> <<c1[1], TAdd(c1[2], c1[3])>>,
       w_ct |-> <<vjp.w_ct, <<>>>>]

AttnCt == {<<g, [g EXCEPT !.data[2] = 1]>> : g \in CtTensors}

AttnInit ==
  /\ x1 \in ChainX1
  /\ x2 \in HalfTensors
  /\ \E wp \in 1..MaxWeight, wo \in 1..MaxWeight : weights = <<wp, <<>>, wo, <<>>>>
  /\ state = << <<>>, <<>>, <<>>, <<>> >>
  /\ new_state = << <<>>, <<>>, <<>>, <<>> >>
  /\ \E k \in 0..(MaxKey + 2) : rng = Key(<<k>>)
  /\ ct \in AttnCt
  /\ y = None
  /\ reconstructed_x = None
  /\ rg = None
  /\ n_sections = None
  /\ ChunkIdle /\ SplitIdle /\ ChainIdle
  /\ LayerIdle

AttnForward ==
  /\ y = None
  /\ y' = Tuple(AttnHalfResidual_forward(<<x1, x2>>, weights, rng))
  /\ UNCHANGED <<weights, state, new_state, rng, ct, reconstructed_x, rg>>
  /\ UNCHANGED <<n_sections, chunkOnly, splitOnly, pairVars, chainOnly>>
  /\ UNCHANGED layerVars

AttnReverse ==
  /\ y # None
  /\ reconstructed_x = None
  /\ reconstructed_x' = AttnHalfResidual_reverse(y.tuple, weights, state, new_state, rng)
  /\ UNCHANGED <<weights, state, new_state, rng, ct, y, rg>>
  /\ UNCHANGED <<n_sections, chunkOnly, splitOnly, pairVars, chainOnly>>
  /\ UNCHANGED layerVars

AttnReverseAndGrad ==
  /\ y # None
  /\ rg = None
  /\ rg' = AttnHalfResidual_reverse_and_grad(y.tuple, ct, weights, state, new_state, rng)
  /\ UNCHANGED <<weights, state, new_state, rng, ct, y, reconstructed_x>>
  /\ UNCHANGED <<n_sections, chunkOnly, splitOnly, pairVars, chainOnly>>
  /\ UNCHANGED layerVars

AttnNext == AttnForward \/ AttnReverse \/ AttnReverseAndGrad

SpecAttn == AttnInit /\ [][AttnNext]_vars

\* The results of the plain step on the same input, weights and cotangent,
\* its sub-layers receiving the keys ks.
PlainY(ks) == Tuple(PlainAttn_forward(<<x1, x2>>, weights[1], weights[3], ks))
PlainRg(ks) == PlainAttn_reverse_and_grad(PlainY(ks).tuple, ct, weights[1], weights[3], ks)

SameAsPlain(ks) ==
  /\ y # None => y = PlainY(ks)
  /\ rg # None => /\ rg.x = PlainRg(ks).x
                  /\ rg.x_ct = PlainRg(ks).x_ct
                  /\ rg.w_ct[1] = PlainRg(ks).w_ct[1][1]
                  /\ rg.w_ct[3] = PlainRg(ks).w_ct[1][3]

AttnZ(t) == AttnResidual(t, weights[1], weights[3], FusedAttnKeys(rng))

C13_AttnReverseExact ==
  reconstructed_x # None => reconstructed_x = Tuple(<<x1, x2>>)

\* -------------------------------------------------- specification SpecZip
\* A half-residual step (pc says which: "half" or "attn") is run forward and
\* then reverse is called with weights, state and new_state sequences of
\* any of the lengths ArgLens.
StepNLayers == IF pc = "attn" THEN AttnNLayers ELSE HalfNLayers
ArgLens(n) == {0, n - 1, n}

ZipInit ==
  /\ pc \in {"half", "attn"}
  /\ x1 \in ChainX1
  /\ x2 \in HalfTensors
  /\ \E w \in 1..MaxWeight : weights = StepWeights(pc, w, w)
  /\ state = StepState(pc)
  /\ new_state = StepState(pc)
  /\ \E k \in 0..MaxKey : rng = Key(<<k>>)
  /\ ct = None /\ y = None /\ reconstructed_x = None /\ rg = None
  /\ n_sections = None
  /\ n_blocks = None /\ pos = None /\ stack = None /\ stack_ct = None
  /\ weights_ct = None /\ live = None /\ calls = None /\ fwd_trace = None
  /\ ChunkIdle /\ SplitIdle
  /\ LayerIdle

zipFrame == <<n_sections, chunkOnly, splitOnly, pairVars, n_blocks, pc, pos, stack,
              stack_ct, weights_ct, live, calls, fwd_trace, rng, ct, rg>>

ZipForward ==
  /\ y = None
  /\ y' = StepForward(pc, <<x1, x2>>, weights, rng, 1)
  /\ UNCHANGED <<weights, state, new_state, reconstructed_x>>
  /\ UNCHANGED zipFrame
  /\ UNCHANGED layerVars

\* reverse(output, weights=w, state=st, new_state=nst, rng=rng)
ZipReverse ==
  /\ y # None
  /\ reconstructed_x = None
  /\ \E nw \in ArgLens(StepNLayers), ns \in ArgLens(StepNLayers), nn \in ArgLens(StepNLayers) :
       /\ weights' = SubSeq(weights, 1, nw)
       /\ state' = SubSeq(state, 1, ns)
       /\ new_state' = SubSeq(new_state, 1, nn)
       /\ reconstructed_x' = StepReverse(pc, y.tuple, weights', state', new_state', rng)
  /\ UNCHANGED y
  /\ UNCHANGED zipFrame
  /\ UNCHANGED layerVars

ZipNext == ZipForward \/ ZipReverse

SpecZip == ZipInit /\ [][ZipNext]_vars

\* C14: a reverse call whose weights, state or new_state sequence does not
\* have exactly one entry per internal sub-layer is rejected with an error and
\* returns no reconstructed tensors.
C14_MisalignedReverseRejected ==
  (/\ reconstructed_x # None
   /\ \/ Len(weights) # StepNLayers
      \/ Len(state) # StepNLayers
      \/ Len(new_state) # StepNLayers)
    => IsError(reconstructed_x)

\* ------------------------------------------------ specification SpecShape
\* A half-residual step (pc: "half" or "attn") run forward on two streams
\* whose shapes are chosen independently.
StreamShapes == {<<b, l, d>> : b \in 1..MaxBatch, l \in {2, 3}, d \in 1..MaxFeat}
\* Elements 0, 1, 0, 1, ... shifted by base.
Stream(shape, base) ==
  [shape |-> shape, data |-> [i \in 1..Prod(shape) |-> base + (i % 2)]]

ShapeInit ==
  /\ pc \in {"half", "attn"}
  /\ \E s1 \in StreamShapes, s2 \in StreamShapes :
       /\ x1 = Stream(s1, 0)
       /\ x2 = Stream(s2, 0 - 1)
  /\ \E w \in 1..MaxWeight : weights = StepWeights(pc, w, w)
  /\ state = StepState(pc)
  /\ new_state = StepState(pc)
  /\ \E k \in 0..MaxKey : rng = Key(<<k>>)
  /\ ct = None /\ y = None /\ reconstructed_x = None /\ rg = None
  /\ n_sections = None
  /\ n_blocks = None /\ pos = None /\ stack = None /\ stack_ct = None
  /\ weights_ct = None /\ live = None /\ calls = None /\ fwd_trace = None
  /\ ChunkIdle /\ SplitIdle
  /\ LayerIdle

\* The forward call; an error raised by the add is the call's outcome.
ShapeForward ==
  /\ y = None
  /\ LET out == StepForward(pc, <<x1, x2>>, weights, rng, 1)
     IN  y' = IF IsError(out.tuple[1]) THEN out.tuple[1] ELSE out
  /\ UNCHANGED <<weights, state, new_state, reconstructed_x>>
  /\ UNCHANGED zipFrame
  /\ UNCHANGED layerVars

ShapeNext == ShapeForward

SpecShape == ShapeInit /\ [][ShapeNext]_vars

\* C15: a forward call whose two input streams have different shapes fails
\* and returns no output pair, so the streams of every pair returned have the
\* shapes of the input pair, equal to each other.
C15_ShapeMismatchRejected ==
  y # None =>
    /\ x1.shape # x2.shape => IsError(y)
    /\ IsTuple(y) => /\ y.tuple[1].shape = x1.shape
                     /\ y.tuple[2].shape = x2.shape
                     /\ y.tuple[1].shape = y.tuple[2].shape

\* ---------------------------------------------- specification SpecDropout
\* BroadcastedDropout.  Rates are in tenths: RateOne is the rate 1.0.
RateOne == 10
Rates == {0 - 5, 0, 5, RateOne, RateOne + 5}
Modes == {"train", "eval", "predict"}

\* __init__(rate, mode, broadcast_dims=(-2,)): the instance, or the error.
BroadcastedDropout_init(rate, mode) ==
  IF rate >= RateOne THEN Raise("ValueError")
  ELSE [rate |-> rate, mode |-> mode, broadcast_dims |-> <<0 - 2>>]

\* The position in the noise tensor (extent 1 on axis -2) that is broadcast
\* to position p of a tensor of rank 3.
NoiseIndex(t, p) ==
  ((p - 1) \div (t.shape[2] * t.shape[3])) * t.shape[3] + ((p - 1) % t.shape[3]) + 1

\* x * keep / keep_prob
DropoutApply(l, t, key) ==
  [shape |-> t.shape,
   data  |-> [p \in 1..Len(t.data) |->
                Fl((t.data[p] * Keep(key, NoiseIndex(t, p)) * RateOne)
                     \div (RateOne - l.rate))]]

BroadcastedDropout_forward_rng_in_train_only(l, t, st, key) ==
  IF l.mode = "train" /\ l.rate > 0
    THEN IF key = None THEN Raise("ValueError")
         ELSE [out |-> DropoutApply(l, t, key), state |-> st]
  ELSE [out |-> t, state |-> st]

BroadcastedDropout_forward_with_state(l, t, st, key) ==
  IF key = None THEN Raise("ValueError")
  ELSE IF l.mode = "train" /\ l.rate > 0
    THEN [out |-> DropoutApply(l, t, key), state |-> st]
  ELSE [out |-> t, state |-> st]

DropoutInputs == {Stream(shp, b) : shp \in {<<1, 2, 2>>, <<2, 2, 1>>}, b \in {0, 1}}
DropoutRngs == {None} \cup {Key(<<k>>) : k \in 0..MaxKey}

DropoutInit ==
  /\ layer = None /\ call_inputs = None /\ result = None
  /\ n_sections = None
  /\ ChunkIdle /\ SplitIdle /\ PairIdle /\ HalfIdle /\ ChainIdle

layerFrame == <<n_sections, chunkOnly, splitOnly, pairVars, halfOnly, chainOnly>>

DropoutConstruct ==
  /\ layer = None
  /\ \E rate \in Rates, mode \in Modes :
       layer' = [args     |-> [rate |-> rate, mode |-> mode],
                 instance |-> BroadcastedDropout_init(rate, mode)]
  /\ UNCHANGED <<call_inputs, result>>
  /\ UNCHANGED layerFrame

DropoutForward ==
  /\ layer # None
  /\ ~IsError(layer.instance)
  /\ result = None
  /\ \E t \in DropoutInputs, st \in {<<>>, <<1>>}, key \in DropoutRngs :
       /\ call_inputs' = [x |-> t, state |-> st, rng |-> key]
       /\ result' = BroadcastedDropout_forward_with_state(layer.instance, t, st, key)
  /\ UNCHANGED layer
  /\ UNCHANGED layerFrame

DropoutNext == DropoutConstruct \/ DropoutForward

SpecDropout == DropoutInit /\ [][DropoutNext]_vars

\* C16: a BroadcastedDropout is constructed exactly when rate < 1.0 (rate >=
\* 1.0 raises); a forward call with rng None fails in every mode; with an rng,
\* a forward call in a mode other than 'train' or with rate 0 returns its
\* input and state unchanged.
C16_DropoutContract ==
  /\ layer # None => (layer.args.rate >= RateOne <=> IsError(layer.instance))
  /\ result # None =>
       /\ call_inputs.rng = None => IsError(result)
       /\ (/\ call_inputs.rng # None
           /\ layer.instance.mode # "train" \/ layer.instance.rate = 0)
            => result = [out |-> call_inputs.x, state |-> call_inputs.state]

C16_Witness ==
  /\ result # None
  /\ call_inputs.rng # None
  /\ layer.instance.mode = "eval"
  /\ layer.instance.rate = 5
  /\ result = [out |-> call_inputs.x, state |-> call_inputs.state]

\* ------------------------------------------------- specification SpecCtor
\* Construction of the attention wrapper and of the attention-fused step from
\* an attention module that has, or has not, forward_and_backward.
AttentionModules ==
  {[name |-> "fused", forward_and_backward |-> TRUE],
   [name |-> "forward_only", forward_and_backward |-> FALSE]}

ApplyAttentionWrapper_init_unchecked(attention) == [attention |-> attention]

\* ApplyAttentionWrapper.__init__
ApplyAttentionWrapper_init(attention) ==
  IF ~attention.forward_and_backward THEN Raise("AssertionError")
  ELSE [attention |-> attention]

\* ReversibleAttentionHalfResidual.__init__: the assert, then
\* self.attention = ApplyAttentionWrapper(attention).
ReversibleAttentionHalfResidual_init(attention) ==
  IF ~attention.forward_and_backward THEN Raise("AssertionError")
  ELSE LET wrapper == ApplyAttentionWrapper_init(attention)
       IN  IF IsError(wrapper) THEN wrapper ELSE [attention |-> wrapper]

\* The attention module a constructed layer ends up calling.
WrappedAttention(l) ==
  IF l.args.kind = "wrapper" THEN l.instance.attention ELSE l.instance.attention.attention

CtorInit ==
  /\ x1 \in ChainX1
  /\ x2 \in HalfTensors
  /\ \E wp \in 1..MaxWeight, wo \in 1..MaxWeight : weights = <<wp, <<>>, wo, <<>>>>
  /\ state = StepState("attn")
  /\ new_state = StepState("attn")
  /\ \E k \in 0..MaxKey : rng = Key(<<k>>)
  /\ ct \in AttnCt
  /\ y = None /\ reconstructed_x = None /\ rg = None
  /\ n_sections = None
  /\ layer = None /\ call_inputs = None /\ result = None
  /\ ChunkIdle /\ SplitIdle /\ ChainIdle

ctorFrame == <<n_sections, chunkOnly, splitOnly, pairVars, chainOnly,
               weights, state, new_state, rng, ct, reconstructed_x, call_inputs, result>>

CtorConstruct ==
  /\ layer = None
  /\ \E kind \in {"wrapper", "step"}, attention \in AttentionModules :
       layer' = [args     |-> [kind |-> kind, attention |-> attention],
                 instance |-> IF kind = "wrapper"
                                THEN ApplyAttentionWrapper_init(attention)
                                ELSE ReversibleAttentionHalfResidual_init(attention)]
  /\ UNCHANGED <<y, rg>>
  /\ UNCHANGED ctorFrame

CtorForward ==
  /\ layer # None
  /\ ~IsError(layer.instance)
  /\ layer.args.kind = "step"
  /\ y = None
  /\ y' = Tuple(AttnHalfResidual_forward(<<x1, x2>>, weights, rng))
  /\ UNCHANGED <<layer, rg>>
  /\ UNCHANGED ctorFrame

\* reverse_and_grad goes through self.attention.forward_and_backward, which
\* calls the wrapped module's forward_and_backward.
CtorReverseAndGrad ==
  /\ y # None
  /\ rg = None
  /\ rg' = IF WrappedAttention(layer).forward_and_backward
             THEN AttnHalfResidual_reverse_and_grad(y.tuple, ct, weights, state, new_state, rng)
             ELSE Raise("AttributeError")
  /\ UNCHANGED <<layer, y>>
  /\ UNCHANGED ctorFrame

CtorNext == CtorConstruct \/ CtorForward \/ CtorReverseAndGrad

SpecCtor == CtorInit /\ [][CtorNext]_vars

\* C17: constructing an ApplyAttentionWrapper or a
\* ReversibleAttentionHalfResidual from an attention module without
\* forward_and_backward raises, so the module of every constructed layer has
\* it and reverse_and_grad of every constructed step completes through it.
C17_FusedCapabilityRequired ==
  /\ layer # None =>
       /\ ~layer.args.attention.forward_and_backward => IsError(layer.instance)
       /\ ~IsError(layer.instance) => WrappedAttention(layer).forward_and_backward
  /\ rg # None => ~IsError(rg)

C17_Witness ==
  /\ layer # None
  /\ layer.args.kind = "step"
  /\ ~IsError(layer.instance)
  /\ rg # None
  /\ ~IsError(rg)

\* -------------------------------------------------- specification SpecRng
\* A half-residual step (pc: "half" or "attn") run forward with an rng and
\* then reversed and reverse_and_grad'ed with the same rng.
RngInit ==
  /\ pc \in {"half", "attn"}
  /\ x1 \in ChainX1
  /\ x2 \in HalfTensors
  /\ \E wa \in 1..MaxWeight, wf \in 1..MaxWeight : weights = StepWeights(pc, wa, wf)
  /\ state = StepState(pc)
  /\ new_state = StepState(pc)
  /\ \E k \in 0..(MaxKey + 2) : rng = Key(<<k>>)
  /\ ct \in AttnCt
  /\ y = None /\ reconstructed_x = None /\ rg = None
  /\ n_sections = None
  /\ n_blocks = None /\ pos = None /\ stack = None /\ stack_ct = None
  /\ weights_ct = None /\ live = None /\ calls = None /\ fwd_trace = None
  /\ ChunkIdle /\ SplitIdle
  /\ LayerIdle

rngFrame == <<n_sections, chunkOnly, splitOnly, pairVars, n_blocks, pc, pos, stack,
              stack_ct, weights_ct, live, calls, fwd_trace, weights, state, new_state,
              rng, ct, layerVars>>

RngForward ==
  /\ y = None
  /\ y' = StepForward(pc, <<x1, x2>>, weights, rng, 1)
  /\ UNCHANGED <<reconstructed_x, rg>>
  /\ UNCHANGED rngFrame

RngReverse ==
  /\ y # None
  /\ reconstructed_x = None
  /\ reconstructed_x' = StepReverse(pc, y.tuple, weights, state, new_state, rng)
  /\ UNCHANGED <<y, rg>>
  /\ UNCHANGED rngFrame

RngReverseAndGrad ==
  /\ y # None
  /\ rg = None
  /\ rg' = StepReverseAndGrad(pc, y.tuple, ct, weights, state, new_state, rng)
  /\ UNCHANGED <<y, reconstructed_x>>
  /\ UNCHANGED rngFrame

RngNext == RngForward \/ RngReverse \/ RngReverseAndGrad

SpecRng == RngInit /\ [][RngNext]_vars

\* The child keys named by the claim, as paths of splits below the call's
\* rng: split over the step's sub-layers and indexed by sub-layer position,
\* then routed by the wrapping combinators; the attention wrapper re-splits
\* its key and takes child 0.
ChildKey(path) == Key(rng.key \o path)
ResidualChildKey == ChildKey(<<0, 2, 2>>)
AttnChildKeys ==
  [pre |-> ChildKey(<<0, 2, 0>>), att |-> ChildKey(<<1, 0>>), post |-> ChildKey(<<2, 0>>)]

\* The residual and its pull-back when the sub-layers are given those keys.
KeyedResidual(t) ==
  IF pc = "half" THEN residual_layers(t, weights[1], ResidualChildKey)
  ELSE AttnResidual(t, weights[1], weights[3], AttnChildKeys)
KeyedResidualCt(t, g) ==
  IF pc = "half" THEN residual_layers_vjp_x(t, weights[1], ResidualChildKey, g)
  ELSE AttnResidual_vjp(t, weights[1], weights[3], AttnChildKeys, g).x_ct

SplitCtOf(v) ==
  LET k == CHOOSE k \in 1..Len(split_out.tuple) :
             \E q \in 1..Len(split_out.tuple[k].data) : split_out.tuple[k].data[q] = v
      q == CHOOSE q \in 1..Len(split_out.tuple[k].data) : split_out.tuple[k].data[q] = v
  IN  ct[k].data[q]
SplitTrueGrad(t) ==
  [shape |-> t.shape, data |-> [p \in 1..Len(t.data) |-> SplitCtOf(t.data[p])]]

\* C19: for a pair of equal shape, reverse_and_grad(output, ct) returns
\* (reverse(output), (reverse(ct), ())): the reconstructed pair, an input
\* gradient that is the gradient of forward, and an empty weight gradient.
C19_SplitReverseAndGrad ==
  (rg # None /\ x1.shape = x2.shape) =>
    /\ rg.x = <<x1, x2>>
    /\ rg.x_ct = SplitForOutput_reverse(ct).tuple
    /\ rg.x_ct = <<SplitTrueGrad(x1), SplitTrueGrad(x2)>>
    /\ rg.w_ct = <<>>

C19_Witness ==
  /\ rg # None
  /\ x1.shape = x2.shape
  /\ n_sections > 1
  /\ x1.shape[3] > 1
  /\ Len(ct) = n_sections
  /\ rg.x_ct = <<SplitTrueGrad(x1), SplitTrueGrad(x2)>>
  /\ rg.x_ct[1] # rg.x_ct[2]

\* --------------------------------------------------- specification SpecMap
\* Map(layer, n_sections, check_shapes).  The wrapped layer has one weight,
\* initialised from the shape it is given, and scales its input by it under
\* a dropout mask drawn from its rng (no mask without rng).
Wrapped_init(shape) == [w |-> Prod(shape)]
Wrapped_apply(t, w, key) ==
  [shape |-> t.shape,
   data  |-> [i \in 1..Len(t.data) |->
                Fl(w.w * t.data[i] * (IF key = None THEN 1 ELSE Keep(key, i)))]]

\* Map.__init__
Map_init(n, check) == [n_sections |-> n, check_shapes |-> check]

\* Map.new_weights_and_state: the weights, and the signatures the wrapped
\* layer's init was called with.
Map_new_weights_and_state(m, sig) ==
  IF m.n_sections = 1 THEN [weights |-> Wrapped_init(sig), inits |-> <<sig>>]
  ELSE IF m.check_shapes /\ \E i \in 1..Len(sig) : sig[i] # sig[1]
    THEN Raise("ValueError")
  ELSE [weights |-> Wrapped_init(sig[1]), inits |-> <<sig[1]>>]

\* _pop_rng_and_split(kwargs, n): the rng of the call split into n child
\* keys, or n times None when the call has no rng.
PopRngAndSplit(key, n) == Rngs(key, n)

Map_forward_shared_rng(m, ins, w, key) ==
  IF m.n_sections = 1 THEN Wrapped_apply(ins, w, key)
  ELSE Tuple([i \in 1..Len(ins) |-> Wrapped_apply(ins[i], w, key)])

\* Map.forward_with_state: the results.
Map_forward(m, ins, w, key) ==
  IF m.n_sections = 1 THEN Wrapped_apply(ins, w, key)
  ELSE LET rngs == PopRngAndSplit(key, Len(ins))
       IN  Tuple([i \in 1..Len(ins) |-> Wrapped_apply(ins[i], w, rngs[i])])

MapShapes == {<<1, 2, 1>>, <<1, 2, 2>>}
\* The input signatures: one shape for n_sections = 1, else one per section.
MapSignatures(n) ==
  IF n = 1 THEN MapShapes ELSE [1..n -> MapShapes]
MapInputs(n, sig, base) ==
  IF n = 1 THEN Stream(sig, base) ELSE [i \in 1..n |-> Stream(sig[i], base)]

MapSpecInit ==
  /\ layer = None /\ call_inputs = None /\ result = None
  /\ n_sections = None
  /\ ChunkIdle /\ SplitIdle /\ PairIdle /\ HalfIdle /\ ChainIdle

MapConstruct ==
  /\ layer = None
  /\ \E n \in 1..MaxSections, check \in BOOLEAN :
       layer' = [map |-> Map_init(n, check), sig |-> None, init |-> None]
  /\ UNCHANGED <<call_inputs, result>>
  /\ UNCHANGED layerFrame

MapNewWeights ==
  /\ layer # None
  /\ layer.init = None
  /\ \E sig \in MapSignatures(layer.map.n_sections) :
       layer' = [layer EXCEPT !.sig = sig,
                              !.init = Map_new_weights_and_state(layer.map, sig)]
  /\ UNCHANGED <<call_inputs, result>>
  /\ UNCHANGED layerFrame

MapForward ==
  /\ layer # None
  /\ layer.init # None
  /\ ~IsError(layer.init)
  /\ result = None
  /\ \E base \in {0, 1}, key \in DropoutRngs :
       /\ call_inputs' = [inputs |-> MapInputs(layer.map.n_sections, layer.sig, base),
                          rng    |-> key]
       /\ result' = Map_forward(layer.map, call_inputs'.inputs, layer.init.weights, key)
  /\ UNCHANGED layer
  /\ UNCHANGED layerFrame

MapNext == MapConstruct \/ MapNewWeights \/ MapForward

SpecMap == MapSpecInit /\ [][MapNext]_vars

MapShapesDiffer(sig) == \E i \in 1..Len(sig) : sig[i] # sig[1]

\* C20: with n_sections > 1, initialisation with check_shapes raises
\* ValueError exactly when some element's shape differs from the first's,
\* and otherwise initialises the wrapped layer once, from the first element;
\* forward returns a tuple with one result per input, in input order: the
\* wrapped layer applied to that input with the same weights and with the
\* rng split for its position.
C20_MapContract ==
  (layer # None /\ layer.map.n_sections > 1 /\ layer.init # None) =>
    /\ (layer.map.check_shapes /\ MapShapesDiffer(layer.sig))
         => layer.init = Raise("ValueError")
    /\ ~(layer.map.check_shapes /\ MapShapesDiffer(layer.sig))
         => layer.init = [weights |-> Wrapped_init(layer.sig[1]),
                          inits   |-> <<layer.sig[1]>>]
    /\ result # None =>
         /\ IsTuple(result)
         /\ Len(result.tuple) = Len(call_inputs.inputs)
         /\ \A i \in 1..Len(call_inputs.inputs) :
              result.tuple[i] =
                Wrapped_apply(call_inputs.inputs[i], layer.init.weights,
                              IF call_inputs.rng = None THEN None
                              ELSE RandomSplit(call_inputs.rng, Len(call_inputs.inputs))[i])

C20_Witness ==
  /\ result # None
  /\ layer.map.n_sections > 1
  /\ layer.map.check_shapes
  /\ call_inputs.rng # None
  /\ \E i, j \in 1..Len(result.tuple) :
       call_inputs.inputs[i] = call_inputs.inputs[j] /\ result.tuple[i] # result.tuple[j]

====
